---- MODULE Spec2Model ----
(***************************************************************************)
(* A model of examples/mnist/MNIST_Example.ipynb: the cells of the         *)
(* notebook run top to bottom (execution counts 1..11) over a heap of      *)
(* model objects, the two data loaders, and the validate() loop.           *)
(*                                                                         *)
(* float32 tensors are modelled bit-exactly for the two conversions the    *)
(* notebook performs on data: ToTensor (uint8 / 255) and data *= 255.      *)
(***************************************************************************)
EXTENDS Integers, Sequences, FiniteSets, TLC

(***************************************************************************)
(* Bounds of the model (the notebook's own sizes are 128, 1024, 60000 and  *)
(* 10000; the ratios that matter are kept: the calibration subset is a     *)
(* strict subset of the training set, and the validation set is not a      *)
(* multiple of the batch size, so drop_last drops a tail).                 *)
(***************************************************************************)
batch_size == 2

Mcalib == 3

TrainLen == 4

ValidLen == 5

MaxSeed == 2

(***************************************************************************)
(* Program constants.                                                      *)
(***************************************************************************)
MaxPixel == 255

IntegerFactor == 255

ScaleNum == 39216

ScaleDen == 10000000

MantBits == 24

(***************************************************************************)
(* float32 arithmetic.  A float is [m |-> mantissa, e |-> exponent] with   *)
(* value m * 2^e, 2^23 <= m < 2^24, or m = 0 (e = 0) for zero.             *)
(***************************************************************************)
RECURSIVE Pow2(_)
Pow2(n) == IF n = 0 THEN 1 ELSE 2 * Pow2(n - 1)

RECURSIVE Log2Floor(_)
Log2Floor(c) == IF c < 2 THEN 0 ELSE 1 + Log2Floor(c \div 2)

FZero == [m |-> 0, e |-> 0]

\* round to nearest, ties to even: q is the truncated mantissa, rest/unit the
\* discarded fraction (0 <= rest < unit)
RoundNearestEven(q, twiceRest, unit) ==
    IF twiceRest > unit \/ (twiceRest = unit /\ q % 2 = 1) THEN q + 1 ELSE q

Normalise(m, e) ==
    IF m = Pow2(MantBits) THEN [m |-> Pow2(MantBits - 1), e |-> e + 1]
    ELSE [m |-> m, e |-> e]

\* long division: r < d is the running remainder, q the bits so far
RECURSIVE DivBits(_, _, _, _)
DivBits(q, r, d, n) ==
    IF n = 0 THEN <<q, r>>
    ELSE IF 2 * r >= d THEN DivBits(2 * q + 1, 2 * r - d, d, n - 1)
         ELSE DivBits(2 * q, 2 * r, d, n - 1)

\* the number of doublings that bring n into [d, 2d)
RECURSIVE ShiftUp(_, _)
ShiftUp(n, d) == IF n >= d THEN 0 ELSE 1 + ShiftUp(2 * n, d)

\* float32(n / d) for integers 0 <= n <= d, correctly rounded
DivF32(n, d) ==
    IF n = 0 THEN FZero
    ELSE LET z  == ShiftUp(n, d)
             n1 == n * Pow2(z)
             qr == DivBits(1, n1 - d, d, MantBits - 1)
             m  == RoundNearestEven(qr[1], 2 * qr[2], d)
         IN  Normalise(m, 0 - (MantBits - 1) - z)

\* float32(f * c) for a float f and a small positive integer c, correctly
\* rounded; the exact product m*c is never formed (it exceeds 31 bits)
MulDrop(m, c, k) == c * (m \div Pow2(k)) + (c * (m % Pow2(k))) \div Pow2(k)

MulF32(f, c) ==
    IF f.m = 0 THEN FZero
    ELSE LET k0   == Log2Floor(c)
             k    == IF MulDrop(f.m, c, k0) < Pow2(MantBits) THEN k0 ELSE k0 + 1
             q    == MulDrop(f.m, c, k)
             rest == (c * (f.m % Pow2(k))) % Pow2(k)
             m    == RoundNearestEven(q, 2 * rest, Pow2(k))
         IN  Normalise(m, f.e + k)

IsIntegerValued(f) ==
    \/ f.m = 0
    \/ f.e >= 0
    \/ (0 - f.e < MantBits /\ f.m % Pow2(0 - f.e) = 0)

\* f holds exactly the integer p (0 <= p < 2^24)
EqualsInt(f, p) ==
    IF p = 0 THEN f.m = 0
    ELSE /\ f.m # 0
         /\ f.e <= 0
         /\ 0 - f.e < MantBits
         /\ f.m = p * Pow2(0 - f.e)


(***************************************************************************)
(* State.                                                                  *)
(*   pc         the statement of the notebook that runs next               *)
(*   heap       the model objects (nn.Module / fx.GraphModule), by id      *)
(*   env        the notebook's global names bound to model objects (0: not *)
(*              yet bound)                                                 *)
(*   train_set, valid_set   the MNIST images on disk, one uint8 pixel each *)
(*   calib_indices          the indices of calib_set into train_set        *)
(*   x          the example input tensor of cell 8                         *)
(*   call       the frame of the running validate() call                   *)
(*   acc        the notebook's global acc                                  *)
(*   printed    what the print() calls reported                            *)
(*   postfix    the accuracy the progress bar of validate() shows          *)
(*   passes     every forward pass made so far                             *)
(*   log        the pipeline stages applied so far, in order               *)
(*   exported   the calls made on the DORY exporter                        *)
(***************************************************************************)
VARIABLES pc, heap, env, train_set, valid_set, calib_indices, x, call, acc,
          printed, postfix, passes, log, exported

vars == <<pc, heap, env, train_set, valid_set, calib_indices, x, call, acc,
          printed, postfix, passes, log, exported>>

NoScale == [num |-> 0, den |-> 1]

\* nn.Module.__init__: a fresh ExampleNet is in training mode with random weights
ExampleNet ==
    [stage |-> "FloatingPoint", traced |-> FALSE, weights |-> "random",
     training |-> TRUE, dirty |-> FALSE, observing |-> FALSE, observed |-> {},
     calibrated |-> FALSE, rounded |-> FALSE, tunnel |-> FALSE, scale |-> NoScale]

NoTensor == [ids |-> <<>>, data |-> <<>>]

NoMetric == [n |-> 0, from |-> {}]

NoCall == [model |-> 0, loader |-> "none", integer |-> FALSE, i |-> 0,
           metric |-> NoMetric, ret |-> "none"]

NoEnv == [model |-> 0, model_fp |-> 0, model_fq |-> 0, model_fq_rounded |-> 0,
          model_tq |-> 0, model_tq_removed |-> 0]

\* the image files: pixel idx of the split, for the data set numbered seed
DatasetImage(seed, split, idx) ==
    IF split = "train" THEN (seed * 31 + idx * 101) % (MaxPixel + 1)
    ELSE (seed * 97 + idx * 59) % (MaxPixel + 1)

Pixel(sample) ==
    IF sample[1] = "train" THEN train_set[sample[2]] ELSE valid_set[sample[2]]

\* transforms.ToTensor(): uint8 -> float32 in [0, 1]
ToTensor(p) == DivF32(p, MaxPixel)

\* the samples a loader iterates over, in order (shuffle=False)
LoaderDataset(loader) ==
    IF loader = "calib_loader"
    THEN [k \in 1..Len(calib_indices) |-> <<"train", calib_indices[k]>>]
    ELSE [k \in 1..Len(valid_set) |-> <<"valid", k>>]

\* len(dataloader) with drop_last=True
LoaderLen(loader) == Len(LoaderDataset(loader)) \div batch_size

\* batch number i (from 0) of a loader: a freshly collated tensor
Batch(loader, i) ==
    LET ds  == LoaderDataset(loader)
        ids == [k \in 1..batch_size |-> ds[i * batch_size + k]]
    IN  [ids |-> ids, data |-> [k \in 1..batch_size |-> ToTensor(Pixel(ids[k]))]]

HasNextOffByOne(loader, i) == i + 1 < LoaderLen(loader)

\* for data, target in dataloader
HasNext(loader, i) == i < LoaderLen(loader)

IntegerizeTwice(t) ==
    [t EXCEPT !.data = [k \in 1..Len(t.data) |->
                            MulF32(MulF32(t.data[k], IntegerFactor), IntegerFactor)]]

\* data *= 255
Integerize(t) ==
    [t EXCEPT !.data = [k \in 1..Len(t.data) |-> MulF32(t.data[k], IntegerFactor)]]

ModelEvalSkipped(obj) == obj

\* model.eval()
ModelEval(obj) == [obj EXCEPT !.training = FALSE]

\* model(data): in training mode the batch-norm running statistics of the
\* state dict are updated (no_grad does not prevent it); inside the
\* calibration context the quantisers observe the batch
Forward(obj, t) ==
    [obj EXCEPT !.dirty = obj.dirty \/ (obj.training /\ obj.stage # "TrueQuantized"),
                !.observed = IF obj.observing THEN obj.observed \cup {t.ids[k] : k \in 1..Len(t.ids)}
                             ELSE obj.observed]

PassRecord(id, obj, t, by, integer) ==
    [model |-> id, stage |-> obj.stage, tunnel |-> obj.tunnel,
     calibrated |-> obj.calibrated, rounded |-> obj.rounded,
     observing |-> obj.observing, by |-> by, integer |-> integer,
     ids |-> t.ids, data |-> t.data]

\* an editor called on heap object id gives the object `new`: either it edits
\* the graph module it was given and returns it, or it returns a new module
ApplyEditor(h, id, new, inplace) ==
    IF inplace THEN [heap |-> [h EXCEPT ![id] = new], res |-> id]
    ELSE [heap |-> Append(h, new), res |-> Len(h) + 1]

Event(op, arg, res, before) == [op |-> op, arg |-> arg, res |-> res, before |-> before]

Init ==
    /\ pc = "c2_ExampleNet"
    /\ heap = <<>>
    /\ env = NoEnv
    /\ \E seed \in 0..MaxSeed :
          /\ train_set = [i \in 1..TrainLen |-> DatasetImage(seed, "train", i)]
          /\ valid_set = [i \in 1..ValidLen |-> DatasetImage(seed, "valid", i)]
    /\ calib_indices = <<>>
    /\ x = NoTensor
    /\ call = NoCall
    /\ acc = NoMetric
    /\ printed = {}
    /\ postfix = NoMetric
    /\ passes = {}
    /\ log = <<>>
    /\ exported = {}

\* cell 2: model = ExampleNet().to(device)
Cell2_ExampleNet ==
    /\ pc = "c2_ExampleNet"
    /\ heap' = Append(heap, ExampleNet)
    /\ env' = [env EXCEPT !.model = Len(heap) + 1]
    /\ pc' = "c3_datasets"
    /\ UNCHANGED <<train_set, valid_set, calib_indices, x, call, acc, printed, postfix, passes, log, exported>>

\* np.random.permutation(len(train_set))[:Mcalib]
PermutationPrefixes(n, k) ==
    {s \in [1..k -> 1..n] : \A a, b \in 1..k : a # b => s[a] # s[b]}

\* cell 3: calib_set, valid_set and the two loaders
Cell3_Datasets ==
    /\ pc = "c3_datasets"
    /\ calib_indices' \in PermutationPrefixes(Len(train_set), Mcalib)
    /\ pc' = "c3_model"
    /\ UNCHANGED <<heap, env, train_set, valid_set, x, call, acc, printed, postfix, passes, log, exported>>

\* cell 3: model = ExampleNet().to(device)
Cell3_Model ==
    /\ pc = "c3_model"
    /\ heap' = Append(heap, ExampleNet)
    /\ env' = [env EXCEPT !.model = Len(heap) + 1]
    /\ pc' = "c3_load"
    /\ UNCHANGED <<train_set, valid_set, calib_indices, x, call, acc, printed, postfix, passes, log, exported>>

\* cell 3: model.load_state_dict(state_dict, strict=True)
Cell3_LoadStateDict ==
    /\ pc = "c3_load"
    /\ heap' = [heap EXCEPT ![env.model].weights = "pretrained"]
    /\ log' = Append(log, Event("load_state_dict", env.model, env.model, heap[env.model]))
    /\ pc' = "c3_validate"
    /\ UNCHANGED <<env, train_set, valid_set, calib_indices, x, call, acc, printed, postfix, passes, exported>>

\* a call validate(model, device, loader, integer=...) whose result is
\* assigned to acc before the statement at ret runs
CallValidate(at, id, loader, integer, ret) ==
    /\ pc = at
    /\ call' = [model |-> id, loader |-> loader, integer |-> integer, i |-> 0,
                metric |-> NoMetric, ret |-> ret]
    /\ pc' = "validate"
    /\ UNCHANGED <<heap, env, train_set, valid_set, calib_indices, x, acc, printed, postfix, passes, log, exported>>

\* acc.update(pred.eq(target).float().mean().item()): the average is over the
\* batches seen; from records whose predictions it averages
MetricUpdate(metric, t) ==
    [n |-> metric.n + 1, from |-> metric.from \cup {t.ids[k] : k \in 1..Len(t.ids)}]

\* validate: model.eval(); acc = Metric('test_acc')
ValidateEnter ==
    /\ pc = "validate"
    /\ heap' = [heap EXCEPT ![call.model] = ModelEval(heap[call.model])]
    /\ pc' = "v_loop"
    /\ UNCHANGED <<env, train_set, valid_set, calib_indices, x, call, acc, printed, postfix, passes, log, exported>>

\* validate: one iteration of the loop over the loader; verbose is left at
\* its default True in every call, so t.set_postfix({'acc': acc.avg}) shows
\* the running accuracy
ValidateBatch ==
    /\ pc = "v_loop"
    /\ HasNext(call.loader, call.i)
    /\ LET batch  == Batch(call.loader, call.i)
           data   == IF call.integer THEN Integerize(batch) ELSE batch
           obj    == heap[call.model]
           metric == MetricUpdate(call.metric, data)
       IN  /\ passes' = passes \cup {PassRecord(call.model, obj, data, "validate", call.integer)}
           /\ heap' = [heap EXCEPT ![call.model] = Forward(obj, data)]
           /\ call' = [call EXCEPT !.i = call.i + 1, !.metric = metric]
           /\ postfix' = metric
    /\ UNCHANGED <<pc, env, train_set, valid_set, calib_indices, x, acc, printed, log, exported>>

\* validate: return acc.avg
ValidateReturn ==
    /\ pc = "v_loop"
    /\ ~HasNext(call.loader, call.i)
    /\ acc' = call.metric
    /\ pc' = call.ret
    /\ call' = NoCall
    /\ UNCHANGED <<heap, env, train_set, valid_set, calib_indices, x, printed, postfix, passes, log, exported>>

\* print("... accuracy: %.3f" % (acc))
PrintAccuracy(at, label, next) ==
    /\ pc = at
    /\ printed' = printed \cup {[label |-> label, from |-> acc.from]}
    /\ pc' = next
    /\ UNCHANGED <<heap, env, train_set, valid_set, calib_indices, x, call, acc, postfix, passes, log, exported>>

Cell3_Validate == CallValidate("c3_validate", env.model, "valid_loader", FALSE, "c3_print")

Cell3_Print == PrintAccuracy("c3_print", "FullPrecision", "c4_trace")

\* cell 4: model_fp = qg.fx.quantlib_symbolic_trace(root=model): a new GraphModule
Cell4_Trace ==
    /\ pc = "c4_trace"
    /\ LET r == ApplyEditor(heap, env.model, [heap[env.model] EXCEPT !.traced = TRUE], FALSE)
       IN  /\ heap' = r.heap
           /\ env' = [env EXCEPT !.model_fp = r.res]
           /\ log' = Append(log, Event("symbolic_trace", env.model, r.res, heap[env.model]))
    /\ pc' = "c5_f2f"
    /\ UNCHANGED <<train_set, valid_set, calib_indices, x, call, acc, printed, postfix, passes, exported>>

\* an editor call  res = editor(arg)  that turns the object into edit(object);
\* the editor's code is not part of the notebook, so both of its possible
\* ways of returning the result are taken
EditorCall(at, op, arg, resname, new, next) ==
    /\ pc = at
    /\ \E inplace \in BOOLEAN :
          LET r == ApplyEditor(heap, arg, new, inplace)
          IN  /\ heap' = r.heap
              /\ env' = [env EXCEPT ![resname] = r.res]
              /\ log' = Append(log, Event(op, arg, r.res, heap[arg]))
    /\ pc' = next
    /\ UNCHANGED <<train_set, valid_set, calib_indices, x, call, acc, printed, postfix, passes, exported>>

\* a statement that changes one model object where it is
InPlace(at, id, new, next) ==
    /\ pc = at
    /\ heap' = [heap EXCEPT ![id] = new]
    /\ pc' = next
    /\ UNCHANGED <<env, train_set, valid_set, calib_indices, x, call, acc, printed, postfix, passes, log, exported>>

\* the names the notebook passes to each stage
F2FArgument == env.model_fp

RounderArgument == env.model_fq

F2TArgumentUnrounded == env.model_fq

F2TArgument == env.model_fq_rounded

RemoverArgument == env.model_tq

ExportArgument == env.model_tq

\* cell 5: model_fq = f2fconverter(model_fp)
Cell5_Float2Fake ==
    EditorCall("c5_f2f", "F2F8bitPACTRoundingConverter", F2FArgument, "model_fq",
               [heap[F2FArgument] EXCEPT !.stage = "FakeQuantized"], "c5_eval")

\* cell 5: model_fq.eval()
Cell5_Eval == InPlace("c5_eval", env.model_fq, ModelEval(heap[env.model_fq]), "c7_enter")

\* cell 7: with qe.float2fake.calibration(model_fq):   (__enter__)
Cell7_EnterCalibration ==
    InPlace("c7_enter", env.model_fq,
            [heap[env.model_fq] EXCEPT !.observing = TRUE], "c7_calibrate")

\* cell 7: acc = validate(model_fq, device, calib_loader)
Cell7_Calibrate == CallValidate("c7_calibrate", env.model_fq, "calib_loader", FALSE, "c7_exit")

\* cell 7: the end of the with block (__exit__): the quantisers are set from
\* what they observed
Cell7_ExitCalibration ==
    /\ pc = "c7_exit"
    /\ heap' = [heap EXCEPT ![env.model_fq] =
                    [heap[env.model_fq] EXCEPT !.observing = FALSE,
                                               !.calibrated = (heap[env.model_fq].observed # {})]]
    /\ log' = Append(log, Event("calibration", env.model_fq, env.model_fq, heap[env.model_fq]))
    /\ pc' = "c7_rounder"
    /\ UNCHANGED <<env, train_set, valid_set, calib_indices, x, call, acc, printed, postfix, passes, exported>>

\* cell 7: model_fq_rounded = rounder(model_fq)
Cell7_Rounder ==
    EditorCall("c7_rounder", "F2F8bitPACTRounder", RounderArgument, "model_fq_rounded",
               [heap[RounderArgument] EXCEPT !.rounded = TRUE], "c7_eval")

\* cell 7: model_fq_rounded.to(device); model_fq_rounded.eval()
Cell7_Eval ==
    InPlace("c7_eval", env.model_fq_rounded, ModelEval(heap[env.model_fq_rounded]), "c7_validate")

\* cell 7: acc = validate(model_fq_rounded, device, valid_loader)
Cell7_Validate ==
    CallValidate("c7_validate", env.model_fq_rounded, "valid_loader", FALSE, "c7_print")

Cell7_Print == PrintAccuracy("c7_print", "FakeQuantized", "c8_x")

\* cell 8: x, _ = next(iter(valid_loader)); x = x[0].unsqueeze(0)
Cell8_ExampleInput ==
    /\ pc = "c8_x"
    /\ LET b == Batch("valid_loader", 0)
       IN  x' = [ids |-> <<b.ids[1]>>, data |-> <<b.data[1]>>]
    /\ pc' = "c8_f2t"
    /\ UNCHANGED <<heap, env, train_set, valid_set, calib_indices, call, acc, printed, postfix, passes, log, exported>>

\* torch.tensor((0.0039216,))
InputScale == [num |-> ScaleNum, den |-> ScaleDen]

\* cell 8: model_tq = f2tconverter(model_fq_rounded, {'x': {'shape': ..., 'scale': ...}})
Cell8_Fake2True ==
    EditorCall("c8_f2t", "F2T24bitConverter", F2TArgument, "model_tq",
               [heap[F2TArgument] EXCEPT !.stage = "TrueQuantized", !.tunnel = TRUE,
                                         !.scale = InputScale], "c9_validate")

\* cell 9: acc = validate(model_tq, device, valid_loader, integer=True)
Cell9_Validate == CallValidate("c9_validate", env.model_tq, "valid_loader", TRUE, "c9_print")

Cell9_Print == PrintAccuracy("c9_print", "TrueQuantized", "c10_remover")

\* cell 10: model_tq_removed = epsremover(model_tq)
Cell10_RemoveTunnel ==
    EditorCall("c10_remover", "FinalEpsTunnelRemover", RemoverArgument, "model_tq_removed",
               [heap[RemoverArgument] EXCEPT !.tunnel = FALSE], "c11_export")

ExportRecord(fn, id) == [fn |-> fn, model |-> id, stage |-> heap[id].stage,
                         tunnel |-> heap[id].tunnel]

\* cell 11: doryexporter.export(model_tq, x.shape, ".")
Cell11_Export ==
    /\ pc = "c11_export"
    /\ exported' = exported \cup {ExportRecord("export", ExportArgument)}
    /\ log' = Append(log, Event("DORYExporter", ExportArgument, ExportArgument, heap[ExportArgument]))
    /\ pc' = "c11_dump"
    /\ UNCHANGED <<heap, env, train_set, valid_set, calib_indices, x, call, acc, printed, postfix, passes>>

\* cell 11: doryexporter.dump_features(model_tq, x, "."): the features of the
\* network on x, i.e. a forward pass of the module it is given on x
Cell11_DumpFeatures ==
    /\ pc = "c11_dump"
    /\ exported' = exported \cup {ExportRecord("dump_features", ExportArgument)}
    /\ passes' = passes \cup {PassRecord(ExportArgument, heap[ExportArgument], x,
                                         "dump_features", FALSE)}
    /\ heap' = [heap EXCEPT ![ExportArgument] = Forward(heap[ExportArgument], x)]
    /\ pc' = "done"
    /\ UNCHANGED <<env, train_set, valid_set, calib_indices, x, call, acc, printed, postfix, log>>

Next ==
    \/ Cell2_ExampleNet
    \/ Cell3_Datasets
    \/ Cell3_Model
    \/ Cell3_LoadStateDict
    \/ Cell3_Validate
    \/ Cell3_Print
    \/ Cell4_Trace
    \/ Cell5_Float2Fake
    \/ Cell5_Eval
    \/ Cell7_EnterCalibration
    \/ Cell7_Calibrate
    \/ Cell7_ExitCalibration
    \/ Cell7_Rounder
    \/ Cell7_Eval
    \/ Cell7_Validate
    \/ Cell7_Print
    \/ Cell8_ExampleInput
    \/ Cell8_Fake2True
    \/ Cell9_Validate
    \/ Cell9_Print
    \/ Cell10_RemoveTunnel
    \/ Cell11_Export
    \/ Cell11_DumpFeatures
    \/ ValidateEnter
    \/ ValidateBatch
    \/ ValidateReturn

Spec == Init /\ [][Next]_vars

(***************************************************************************)
(* validate() on its own: the state on entry to a call                     *)
(* validate(model, device, valid_loader, integer=...) for every value of   *)
(* an 8-bit pixel and both settings of the switch.                         *)
(***************************************************************************)
InitValidate ==
    /\ pc = "validate"
    /\ heap = <<[ExampleNet EXCEPT !.weights = "pretrained"]>>
    /\ env = [NoEnv EXCEPT !.model = 1]
    /\ train_set = <<>>
    /\ \E p \in 0..MaxPixel :
          valid_set = [k \in 1..batch_size |-> (p + (k - 1) * 85) % (MaxPixel + 1)]
    /\ calib_indices = <<>>
    /\ x = NoTensor
    /\ \E integer \in BOOLEAN :
          call = [model |-> 1, loader |-> "valid_loader", integer |-> integer, i |-> 0,
                  metric |-> NoMetric, ret |-> "done"]
    /\ acc = NoMetric
    /\ printed = {}
    /\ postfix = NoMetric
    /\ passes = {}
    /\ log = <<>>
    /\ exported = {}

NextValidate ==
    \/ ValidateEnter
    \/ ValidateBatch
    \/ ValidateReturn

SpecValidate == InitValidate /\ [][NextValidate]_vars

(***************************************************************************)
(* The TrueQuantized graph, as model_tq.graph.print_tabular() prints it:   *)
(* a chain, every node taking the node before it as its only argument.     *)
(***************************************************************************)
TrueQuantizedGraph ==
    <<"placeholder",
      "Integeriser", "Requantiser", "Integeriser", "Requantiser",
      "Integeriser", "Requantiser", "Integeriser", "Requantiser",
      "flatten",
      "Integeriser", "Requantiser", "Integeriser",
      "EpsTunnel", "output">>

IsNotTunnel(kind) == kind # "EpsTunnel"

\* the graph of a TrueQuantized module, with or without its final EpsTunnel
Graph(tunnel) ==
    IF tunnel THEN TrueQuantizedGraph ELSE SelectSeq(TrueQuantizedGraph, IsNotTunnel)

\* whether the tensor node n of graph g produces is integer-valued, for an
\* input that is (or is not) integer-valued: the placeholder hands on the
\* input; integerised layers have integer parameters, so they produce
\* integers from integers; a requantiser rounds; the EpsTunnel rescales to
\* floating point
RECURSIVE NodeOutputIsInteger(_, _, _)
NodeOutputIsInteger(g, n, inputIsInteger) ==
    IF n = 1 THEN inputIsInteger
    ELSE IF g[n] = "EpsTunnel" THEN FALSE
    ELSE IF g[n] = "Requantiser" THEN TRUE
    ELSE NodeOutputIsInteger(g, n - 1, inputIsInteger)

TensorIsInteger(data) == \A k \in 1..Len(data) : IsIntegerValued(data[k])

(***************************************************************************)
(* Claims.                                                                 *)
(***************************************************************************)
ObjectIds == 1..Len(heap)

IsValidationSample(s) == s[1] = "valid"

\* C1: every forward pass of a TrueQuantized model, whether made by validate
\* or by dump_features, receives the loader's data multiplied by 255, never
\* the raw tensor in [0, 1].
C1_TrueQuantizedInputIntegerized ==
    \A r \in passes :
        r.stage = "TrueQuantized" =>
            \A k \in 1..Len(r.ids) :
                r.data[k] = MulF32(ToTensor(Pixel(r.ids[k])), IntegerFactor)

StageOrder ==
    <<"load_state_dict", "symbolic_trace", "F2F8bitPACTRoundingConverter",
      "calibration", "F2F8bitPACTRounder", "F2T24bitConverter",
      "FinalEpsTunnelRemover", "DORYExporter">>

\* C3: the stages are applied in the fixed order load, trace, float2fake,
\* calibration, rounder, fake2true, tunnel remover, export, none skipped or
\* repeated; every stage between load and export is applied to the object the
\* stage before it produced; and the run ends with the export.
C3_FixedStageOrder ==
    /\ Len(log) <= Len(StageOrder)
    /\ \A k \in 1..Len(log) : log[k].op = StageOrder[k]
    /\ \A k \in 2..Len(log) :
          log[k].op # "DORYExporter" => log[k].arg = log[k - 1].res
    /\ pc = "done" => Len(log) = Len(StageOrder)

C3_Witness ==
    /\ pc = "done"
    /\ Len(log) = Len(StageOrder)
    /\ log[Len(log)].op = "DORYExporter"

\* the samples a full pass over calib_loader delivers (drop_last=True)
CalibrationPass ==
    {<<"train", calib_indices[k]>> :
        k \in 1..((Len(calib_indices) \div batch_size) * batch_size)}

\* C4: the rounder is applied to a module whose calibration context has been
\* entered, has seen a full pass over the calibration loader, and has been
\* exited; and a FakeQuantized module is validated on the validation set, or
\* converted to TrueQuantized, only once it is calibrated and rounded.
C4_RoundingAfterCalibration ==
    /\ \A k \in 1..Len(log) :
          log[k].op = "F2F8bitPACTRounder" =>
              /\ \E j \in 1..(k - 1) :
                    log[j].op = "calibration" /\ log[j].res = log[k].arg
              /\ ~log[k].before.observing
              /\ log[k].before.calibrated
              /\ log[k].before.observed = CalibrationPass
              /\ \A s \in CalibrationPass :
                    \E r \in passes :
                        /\ r.model = log[k].arg
                        /\ r.observing
                        /\ \E i \in 1..Len(r.ids) : r.ids[i] = s
    /\ \A r \in passes :
          (r.stage = "FakeQuantized" /\ \E i \in 1..Len(r.ids) : IsValidationSample(r.ids[i]))
              => (r.calibrated /\ r.rounded)
    /\ \A k \in 1..Len(log) :
          log[k].op = "F2T24bitConverter" =>
              (log[k].before.calibrated /\ log[k].before.rounded)

C4_Witness ==
    /\ \E k \in 1..Len(log) : log[k].op = "F2T24bitConverter"
    /\ CalibrationPass # {}
    /\ \E r \in passes :
          r.stage = "FakeQuantized" /\ IsValidationSample(r.ids[1]) /\ r.rounded

\* C5: in every forward pass of a TrueQuantized module every node other than
\* the EpsTunnel produces an integer-valued tensor, and the graph has at most
\* one EpsTunnel, which is the node feeding the output.
C5_TrueQuantizedTensorsInteger ==
    \A r \in passes :
        r.stage = "TrueQuantized" =>
            LET g == Graph(r.tunnel)
            IN  \A n \in 1..(Len(g) - 1) :
                    IF g[n] = "EpsTunnel" THEN n = Len(g) - 1
                    ELSE NodeOutputIsInteger(g, n, TensorIsInteger(r.data))

\* C6: with integer=True validate hands the model, for a pixel p that the
\* loader delivered as float32(p/255), exactly the integer p in 0..255; with
\* integer=False it hands the model the loader's tensor unchanged.
C6_ValidateIntegerSwitch ==
    \A r \in passes :
        r.by = "validate" =>
            \A k \in 1..Len(r.ids) :
                LET p == Pixel(r.ids[k])
                IN  IF r.integer
                    THEN p \in 0..MaxPixel /\ EqualsInt(r.data[k], p)
                    ELSE r.data[k] = ToTensor(p)

C6_Witness ==
    /\ pc = "v_loop"
    /\ \E r \in passes :
          /\ r.by = "validate"
          /\ r.integer
          /\ Pixel(r.ids[1]) = 127
          /\ ~IsIntegerValued(ToTensor(Pixel(r.ids[1])))

\* C8: the input scale handed to the fake2true converter times the factor by
\* which validate integerizes the data is exactly 1.
C8_ScaleInvertsIntegerFactor ==
    \A id \in ObjectIds :
        heap[id].stage = "TrueQuantized" =>
            heap[id].scale.num * IntegerFactor = heap[id].scale.den

IsInjective(s) == \A a, b \in 1..Len(s) : a # b => s[a] # s[b]

CalibrationSetWellFormed ==
    calib_indices # <<>> =>
        /\ Len(calib_indices) = Mcalib
        /\ IsInjective(calib_indices)
        /\ \A k \in 1..Len(calib_indices) : calib_indices[k] \in 1..Len(train_set)

OnlyCalibrationSamplesObserved ==
    \A r \in passes :
        r.observing =>
            \A i \in 1..Len(r.ids) :
                /\ ~IsValidationSample(r.ids[i])
                /\ \E k \in 1..Len(calib_indices) : r.ids[i] = <<"train", calib_indices[k]>>

NoForwardPassChangesStateDict ==
    \A id \in ObjectIds : ~heap[id].dirty /\ heap[id].weights \in {"random", "pretrained"}

\* C9 (as stated): the calibration set is Mcalib pairwise distinct indices of
\* the training set; only calibration samples pass through a model inside the
\* calibration context; no calibration sample contributes to an accuracy the
\* notebook reports, be it printed or shown on the progress bar; and no
\* forward pass changes the state dict of a model.
C9_NoCalibrationSampleInAnyReportedAccuracy ==
    /\ CalibrationSetWellFormed
    /\ OnlyCalibrationSamplesObserved
    /\ \A p \in printed : \A s \in p.from : IsValidationSample(s)
    /\ \A s \in postfix.from : IsValidationSample(s)
    /\ NoForwardPassChangesStateDict

\* C9 (amended): the calibration set is Mcalib pairwise distinct indices of
\* the training set; only calibration samples pass through a model inside the
\* calibration context; no calibration sample contributes to an accuracy that
\* a print() call reports; and no forward pass changes the state dict of a
\* model.
C9_CalibrationAndValidationSeparate ==
    /\ CalibrationSetWellFormed
    /\ OnlyCalibrationSamplesObserved
    /\ \A p \in printed : \A s \in p.from : IsValidationSample(s)
    /\ NoForwardPassChangesStateDict

C9_Witness ==
    /\ pc = "done"
    /\ Cardinality(printed) = 3
    /\ \E r \in passes : r.observing /\ r.by = "validate"
    /\ \E r \in passes : ~r.observing /\ IsValidationSample(r.ids[1])
====
